---- MODULE Spec2Model ----
(***************************************************************************)
(* ESBMC-AI, src/main.py: one run of main().  The program checks its       *)
(* environment, runs the verifier once, and, when the verifier reports a   *)
(* violation, seeds a chat with the source code and the verifier output,   *)
(* sends one initial prompt and then serves the operator's lines.          *)
(*                                                                         *)
(* pc is the position of main(); every action is one statement group of    *)
(* main() with the calls it makes.  Text is modelled by TLA+ strings, and   *)
(* f-strings by string concatenation.                                      *)
(***************************************************************************)
EXTENDS Integers, Sequences, FiniteSets, TLC

VARIABLES
    pc,              \* position in main()
    env,             \* what the program is started in: files, argv, settings store
    config,          \* the src.config module's globals
    out,             \* what print() has written, one entry per call
    status,          \* process exit status, -1 while running
    endedBy,         \* how the process ended, "" while running
    anim,            \* LoadingWidget: is the indicator running
    animStarts,      \* number of anim.start() calls
    source_code,     \* main's local source_code
    esbmc_cmd,       \* the argument vector esbmc() launched
    exit_code,       \* main's local exit_code
    esbmc_output,    \* main's local esbmc_output
    esbmcRuns,       \* number of verifier processes launched
    system_messages, \* main's local system_messages
    chat,            \* the ChatInterface object: [created, messages]
    response,        \* main's local response
    sent,            \* the texts main passed to chat.send_message, in order
    backendCalls,    \* number of transmissions to the backend
    rendered,        \* the responses passed to print_assistant_response, in order
    reads,           \* number of input() calls
    user_message     \* main's local user_message

vars == <<pc, env, config, out, status, endedBy, anim, animStarts, source_code,
          esbmc_cmd, exit_code, esbmc_output, esbmcRuns, system_messages, chat,
          response, sent, backendCalls, rendered, reads, user_message>>

-----------------------------------------------------------------------------
(* Bounds *)

\* the number of lines the operator may enter in one session
MaxReads == 3

-----------------------------------------------------------------------------
(* Text constants of main.py *)

DEFAULT_PROMPT == "Walk me through the source code, while also explaining the output of ESBMC at the relevant parts. You shall not start the reply with an acknowledgement message such as 'Certainly'."

SRC_INJECT == "Reply OK if you understand that the following text is the program source code: "

OUT_INJECT == "Reply OK if you understand that the following text is the output from ESBMC after reading the program source code: "

\* what print_help() prints, one entry per print() call
HelpLines == << "", "Commands:", "/help: Print this help message.",
                "/exit: Exit the program.", "" >>

-----------------------------------------------------------------------------
(* The collaborators that main.py imports: src.config, src.chat,           *)
(* src.loading_widget.                                                     *)

Msg(r, c) == [role |-> r, content |-> c]

\* src.chat.SYSTEM_MSG_DEFAULT: the built-in persona
SYSTEM_MSG_DEFAULT ==
    << Msg("system", "You are an assistant that explains the output of ESBMC.") >>

\* src.config.esbmc_path and the module-level value of src.config.esbmc_params
ESBMC_PATH == "./esbmc"
ESBMC_PARAMS == << "--k-induction" >>

\* a settings value that is either a string or a list of messages
CfgStr(s)  == [kind |-> "str",  str |-> s,  list |-> << >>]
CfgList(l) == [kind |-> "list", str |-> "", list |-> l]

\* src.config's globals before load_envs()/load_args()
ConfigDefaults ==
    [ verbose            |-> FALSE,
      raw_responses      |-> FALSE,
      ai_model           |-> "gpt-3.5-turbo",
      esbmc_path         |-> ESBMC_PATH,
      esbmc_params       |-> ESBMC_PARAMS,
      cfg_sys_msg        |-> CfgStr(""),
      cfg_initial_prompt |-> "",
      openai_api_key     |-> "" ]

\* config.load_envs(); config.load_args(args): the settings store is read and
\* the command-line flags override it
LoadedConfig(e) ==
    [ verbose            |-> e.verbose,
      raw_responses      |-> e.raw_output,
      ai_model           |-> IF e.ai_model # "" THEN e.ai_model ELSE ConfigDefaults.ai_model,
      esbmc_path         |-> ESBMC_PATH,
      esbmc_params       |-> ESBMC_PARAMS,
      cfg_sys_msg        |-> e.cfg_sys_msg,
      cfg_initial_prompt |-> e.cfg_initial_prompt,
      openai_api_key     |-> "sk-key" ]

\* src.config.printv(m): print(m) when config.verbose
printv(o, m) == IF config.verbose THEN Append(o, m) ELSE o

\* the replies the backend may give
Responses ==
    { [role |-> "assistant", content |-> "The assertion fails.",
       total_tokens |-> 42, finish_reason |-> "stop"],
      [role |-> "assistant", content |-> "The loop reads past the",
       total_tokens |-> 4096, finish_reason |-> "length"] }

NoResponse == [role |-> "", content |-> "", total_tokens |-> 0, finish_reason |-> ""]

\* ChatInterface(system_messages=..., model=..., temperature=...)
NewChat(sm) == [created |-> TRUE, messages |-> sm, max_tokens |-> 4096]

NoChat == [created |-> FALSE, messages |-> << >>, max_tokens |-> 4096]

\* ChatInterface.send_message(text) when the backend replies r
SendMessageOk(c, text, r) ==
    [c EXCEPT !.messages =
        Append(Append(c.messages, Msg("user", text)), Msg(r.role, r.content))]

\* ChatInterface.send_message(text) when the transport call raises
SendMessageRaise(c, text) ==
    [c EXCEPT !.messages = Append(c.messages, Msg("user", text))]

-----------------------------------------------------------------------------
(* Environments main() may be started in *)

\* process.wait(): 0 no defect, 1 defect found, anything else a tool failure
\* (a negative code is a death by signal)
VerifierExitCodes == {0, 1, 2, -6}

Environments ==
    [ envExists          : BOOLEAN,          \* is there a .env file
      esbmcExists        : BOOLEAN,          \* is there a file at config.esbmc_path
      srcReadable        : BOOLEAN,          \* can args.filename be opened
      filename           : {"prog.c"},
      remaining          : { << >>, << "--unwind", "5" >> },
      verbose            : BOOLEAN,
      raw_output         : BOOLEAN,
      ai_model           : {""},
      stdout_bytes       : { << "O", "K", "\n" >> },   \* what the verifier writes
      exit_code          : VerifierExitCodes,          \* how the verifier ends
      popenRaises        : BOOLEAN,          \* Popen cannot launch the file
      cfg_sys_msg        : { CfgStr(""), CfgList(<< >>),
                             CfgList(<< Msg("system", "You are a tutor.") >>) },
      cfg_initial_prompt : {"", "Explain the bug."} ]

Init ==
    /\ pc = "init_check_health"
    /\ env \in Environments
    /\ config = ConfigDefaults
    /\ out = << >>
    /\ status = -1
    /\ endedBy = ""
    /\ anim = FALSE
    /\ animStarts = 0
    /\ source_code = ""
    /\ esbmc_cmd = << >>
    /\ exit_code = -1
    /\ esbmc_output = ""
    /\ esbmcRuns = 0
    /\ system_messages = << >>
    /\ chat = NoChat
    /\ response = NoResponse
    /\ sent = << >>
    /\ backendCalls = 0
    /\ rendered = << >>
    /\ reads = 0
    /\ user_message = ""

-----------------------------------------------------------------------------
(* Text conversion of esbmc(): str(output_bytes).replace("\\n", "\n").     *)
(* A text is a sequence of one-character strings here; the bytes are       *)
(* letters, the line break, and the backslash.                             *)

RECURSIVE Join(_)
\* the characters as one string
Join(cs) == IF cs = << >> THEN "" ELSE Head(cs) \o Join(Tail(cs))

\* how str() of a bytes object writes one byte
PyReprByte(b) ==
    CASE b = "\n" -> << "\\", "n" >>
      [] b = "\\" -> << "\\", "\\" >>
      [] OTHER    -> << b >>

RECURSIVE PyReprBody(_)
PyReprBody(bs) ==
    IF bs = << >> THEN << >> ELSE PyReprByte(Head(bs)) \o PyReprBody(Tail(bs))

\* str(output_bytes): the bytes literal, b'...'
PyStrBytes(bs) == << "b", "'" >> \o PyReprBody(bs) \o << "'" >>

RECURSIVE ReplaceEscapedNewline(_)
\* .replace("\\n", "\n"): left to right, every backslash followed by n
ReplaceEscapedNewline(cs) ==
    IF Len(cs) < 2 THEN cs
    ELSE IF cs[1] = "\\" /\ cs[2] = "n"
         THEN << "\n" >> \o ReplaceEscapedNewline(SubSeq(cs, 3, Len(cs)))
         ELSE << cs[1] >> \o ReplaceEscapedNewline(Tail(cs))

\* the output text esbmc() returns for the bytes the verifier wrote
EsbmcOutputText(bs) == Join(ReplaceEscapedNewline(PyStrBytes(bs)))

\* the default of esbmc()'s esbmc_params parameter: config.esbmc_params as it
\* is when the def statement runs
EsbmcDefaultParams == ESBMC_PARAMS

\* esbmc(): the argument vector it builds
EsbmcCmd(path, esbmc_params) == << config.esbmc_path >> \o esbmc_params \o << path >>

\* main's call esbmc(args.filename): the arguments it passes
EsbmcCallParams == EsbmcDefaultParams

-----------------------------------------------------------------------------
(* The process ends: exit(n), or an exception nobody catches               *)

Exit(n, by) ==
    /\ pc' = "terminated"
    /\ status' = n
    /\ endedBy' = by

\* an exception leaves main(): the interpreter prints the traceback to stderr
\* and ends with status 1
Uncaught(what) == Exit(1, what)

\* the unrecoverable failures main() ends on with a diagnostic
FailureKinds == {"missing_env", "missing_esbmc", "verifier_crash"}

\* faulty variant: exit(3) after a verifier crash too
FailureStatusAllThree(kind) ==
    CASE kind = "missing_env"    -> 3
      [] kind = "missing_esbmc"  -> 3
      [] kind = "verifier_crash" -> 3

\* the status each failure's exit() call passes
FailureStatus(kind) ==
    CASE kind = "missing_env"    -> 3
      [] kind = "missing_esbmc"  -> 3
      [] kind = "verifier_crash" -> 1

Running(at) == pc' = at /\ UNCHANGED <<status, endedBy>>

-----------------------------------------------------------------------------
(* main(), startup *)

\* faulty variant: init_check_health() without its exit(3)
InitCheckHealthNoExit ==
    /\ pc = "init_check_health"
    /\ LET o1 == IF env.verbose
                 THEN Append(<< "ESBMC-AI", "" >>, "Performing init health check...")
                 ELSE << "ESBMC-AI", "" >>
       IN out' = (IF env.envExists
                  THEN (IF env.verbose
                        THEN Append(o1, "Environment file has been located")
                        ELSE o1)
                  ELSE Append(o1, "Error: .env file is not found in project directory"))
    /\ Running("load_config")
    /\ UNCHANGED <<env, config, anim, animStarts, source_code, esbmc_cmd, exit_code,
                   esbmc_output, esbmcRuns, system_messages, chat, response, sent,
                   backendCalls, rendered, reads, user_message>>

\* init_check_health(args.verbose)
InitCheckHealth ==
    /\ pc = "init_check_health"
    /\ LET o1 == IF env.verbose
                 THEN Append(<< "ESBMC-AI", "" >>, "Performing init health check...")
                 ELSE << "ESBMC-AI", "" >>
       IN IF env.envExists
          THEN /\ out' = (IF env.verbose
                          THEN Append(o1, "Environment file has been located")
                          ELSE o1)
               /\ Running("load_config")
          ELSE /\ out' = Append(o1, "Error: .env file is not found in project directory")
               /\ Exit(FailureStatus("missing_env"), "missing_env")
    /\ UNCHANGED <<env, config, anim, animStarts, source_code, esbmc_cmd, exit_code,
                   esbmc_output, esbmcRuns, system_messages, chat, response, sent,
                   backendCalls, rendered, reads, user_message>>

\* config.load_envs(); config.load_args(args)
LoadConfig ==
    /\ pc = "load_config"
    /\ config' = LoadedConfig(env)
    /\ Running("check_health")
    /\ UNCHANGED <<env, out, anim, animStarts, source_code, esbmc_cmd, exit_code,
                   esbmc_output, esbmcRuns, system_messages, chat, response, sent,
                   backendCalls, rendered, reads, user_message>>

\* faulty variant: check_health() without its exit(3)
CheckHealthNoExit ==
    /\ pc = "check_health"
    /\ LET o1 == printv(out, "Performing health check...")
       IN /\ out' = (IF env.esbmcExists
                     THEN printv(o1, "ESBMC has been located")
                     ELSE Append(o1, "Error: ESBMC could not be found in "
                                     \o config.esbmc_path))
          /\ Running("init_ai_data")
    /\ UNCHANGED <<env, config, anim, animStarts, source_code, esbmc_cmd, exit_code,
                   esbmc_output, esbmcRuns, system_messages, chat, response, sent,
                   backendCalls, rendered, reads, user_message>>

\* check_health()
CheckHealth ==
    /\ pc = "check_health"
    /\ LET o1 == printv(out, "Performing health check...")
       IN IF env.esbmcExists
          THEN /\ out' = printv(o1, "ESBMC has been located")
               /\ Running("init_ai_data")
          ELSE /\ out' = Append(o1, "Error: ESBMC could not be found in " \o config.esbmc_path)
               /\ Exit(FailureStatus("missing_esbmc"), "missing_esbmc")
    /\ UNCHANGED <<env, config, anim, animStarts, source_code, esbmc_cmd, exit_code,
                   esbmc_output, esbmcRuns, system_messages, chat, response, sent,
                   backendCalls, rendered, reads, user_message>>

\* config.init_ai_data(); anim = LoadingWidget()
InitAiData ==
    /\ pc = "init_ai_data"
    /\ Running("get_src")
    /\ UNCHANGED <<env, config, out, anim, animStarts, source_code, esbmc_cmd,
                   exit_code, esbmc_output, esbmcRuns, system_messages, chat,
                   response, sent, backendCalls, rendered, reads, user_message>>

RECURSIVE JoinWith(_, _)
JoinWith(l, sep) ==
    IF l = << >> THEN ""
    ELSE IF Len(l) = 1 THEN "'" \o l[1] \o "'"
    ELSE "'" \o l[1] \o "'" \o sep \o JoinWith(Tail(l), sep)

\* str() of a list of strings
PyStrList(l) == "[" \o JoinWith(l, ", ") \o "]"

\* the two printv calls and source_code = get_src(args.filename)
GetSrc ==
    /\ pc = "get_src"
    /\ out' = printv(printv(out, "Reading source code..."),
                     "Running ESBMC with " \o PyStrList(config.esbmc_params))
    /\ IF env.srcReadable
       THEN /\ source_code' = "int main() { assert(0); }"
            /\ Running("esbmc_start")
       ELSE /\ source_code' = source_code
            /\ Uncaught("exception_get_src")
    /\ UNCHANGED <<env, config, anim, animStarts, esbmc_cmd, exit_code, esbmc_output,
                   esbmcRuns, system_messages, chat, response, sent, backendCalls,
                   rendered, reads, user_message>>

\* anim.start("ESBMC is processing... Please Wait")
EsbmcAnimStart ==
    /\ pc = "esbmc_start"
    /\ anim' = TRUE
    /\ animStarts' = animStarts + 1
    /\ Running("esbmc_call")
    /\ UNCHANGED <<env, config, out, source_code, esbmc_cmd, exit_code, esbmc_output,
                   esbmcRuns, system_messages, chat, response, sent, backendCalls,
                   rendered, reads, user_message>>

\* exit_code, esbmc_output, esbmc_err = esbmc(args.filename)
EsbmcCall ==
    /\ pc = "esbmc_call"
    /\ esbmc_cmd' = EsbmcCmd(env.filename, EsbmcCallParams)
    /\ IF env.popenRaises
       THEN /\ Uncaught("exception_popen")
            /\ UNCHANGED <<exit_code, esbmc_output, esbmcRuns>>
       ELSE /\ esbmcRuns' = esbmcRuns + 1
            /\ exit_code' = env.exit_code
            /\ esbmc_output' = EsbmcOutputText(env.stdout_bytes)
            /\ Running("esbmc_stop")
    /\ UNCHANGED <<env, config, out, anim, animStarts, source_code, system_messages,
                   chat, response, sent, backendCalls, rendered, reads, user_message>>

\* anim.stop()
EsbmcAnimStop ==
    /\ pc = "esbmc_stop"
    /\ anim' = FALSE
    /\ Running("classify")
    /\ UNCHANGED <<env, config, out, animStarts, source_code, esbmc_cmd, exit_code,
                   esbmc_output, esbmcRuns, system_messages, chat, response, sent,
                   backendCalls, rendered, reads, user_message>>

\* faulty variant: the meanings of 0 and 1 exchanged
ExitClassSwapped(code) ==
    IF code = 1 THEN "success"
    ELSE IF code # 0 THEN "tool_failure"
    ELSE "defect_found"

\* faulty variant: only the codes above 1 taken for a tool failure
ExitClassAboveOne(code) ==
    IF code = 0 THEN "success"
    ELSE IF code > 1 THEN "tool_failure"
    ELSE "defect_found"

\* faulty variant: elif exit_code != 0
ExitClassNotZero(code) ==
    IF code = 0 THEN "success"
    ELSE "tool_failure"

\* which of the three continuations the exit code selects
ExitClass(code) ==
    IF code = 0 THEN "success"
    ELSE IF code # 1 THEN "tool_failure"
    ELSE "defect_found"

\* faulty variant: a tool failure answered by running the verifier again
ClassifyRetry ==
    /\ pc = "classify"
    /\ CASE ExitClass(exit_code) = "success" ->
              /\ out' = out \o << "Success!", esbmc_output >>
              /\ Exit(0, "verifier_success")
         [] ExitClass(exit_code) = "tool_failure" ->
              /\ out' = Append(out, "ESBMC exit code: " \o ToString(exit_code))
              /\ Running("esbmc_start")
         [] OTHER ->
              /\ out' = printv(out, "Initializing OpenAI")
              /\ Running("build_system_messages")
    /\ UNCHANGED <<env, config, anim, animStarts, source_code, esbmc_cmd, exit_code,
                   esbmc_output, esbmcRuns, system_messages, chat, response, sent,
                   backendCalls, rendered, reads, user_message>>

\* if exit_code == 0: ... elif exit_code != 1: ...; then printv, openai.api_key
Classify ==
    /\ pc = "classify"
    /\ CASE ExitClass(exit_code) = "success" ->
              /\ out' = out \o << "Success!", esbmc_output >>
              /\ Exit(0, "verifier_success")
         [] ExitClass(exit_code) = "tool_failure" ->
              /\ out' = Append(out, "ESBMC exit code: " \o ToString(exit_code))
              /\ Exit(FailureStatus("verifier_crash"), "verifier_crash")
         [] OTHER ->
              /\ out' = printv(out, "Initializing OpenAI")
              /\ Running("build_system_messages")
    /\ UNCHANGED <<env, config, anim, animStarts, source_code, esbmc_cmd, exit_code,
                   esbmc_output, esbmcRuns, system_messages, chat, response, sent,
                   backendCalls, rendered, reads, user_message>>

-----------------------------------------------------------------------------
(* main(), the chat *)

\* config.cfg_sys_msg != ""
CfgSysMsgGiven(c) == ~(c.kind = "str" /\ c.str = "")

\* faulty variant: the verifier output injected before the source code
build_system_messages_swapped(src, esbmcOut) ==
    (IF CfgSysMsgGiven(config.cfg_sys_msg)
     THEN config.cfg_sys_msg.list
     ELSE SYSTEM_MSG_DEFAULT)
    \o << Msg("system", OUT_INJECT \o esbmcOut),
          Msg("assistant", "OK"),
          Msg("system", SRC_INJECT \o src),
          Msg("assistant", "OK") >>

\* build_system_messages(source_code, esbmc_output)
build_system_messages(src, esbmcOut) ==
    (IF CfgSysMsgGiven(config.cfg_sys_msg)
     THEN config.cfg_sys_msg.list
     ELSE SYSTEM_MSG_DEFAULT)
    \o << Msg("system", SRC_INJECT \o src),
          Msg("assistant", "OK"),
          Msg("system", OUT_INJECT \o esbmcOut),
          Msg("assistant", "OK") >>

\* system_messages = build_system_messages(source_code, esbmc_output)
BuildSystemMessages ==
    /\ pc = "build_system_messages"
    /\ out' = printv(out, "Loading system messages")
    /\ system_messages' = build_system_messages(source_code, esbmc_output)
    /\ Running("chat_init")
    /\ UNCHANGED <<env, config, anim, animStarts, source_code, esbmc_cmd, exit_code,
                   esbmc_output, esbmcRuns, chat, response, sent, backendCalls,
                   rendered, reads, user_message>>

\* chat = ChatInterface(system_messages=system_messages, ...); printv(model)
ChatInit ==
    /\ pc = "chat_init"
    /\ chat' = NewChat(system_messages)
    /\ out' = printv(out, "Using AI Model: " \o config.ai_model)
    /\ Running("initial_start")
    /\ UNCHANGED <<env, config, anim, animStarts, source_code, esbmc_cmd, exit_code,
                   esbmc_output, esbmcRuns, system_messages, response, sent,
                   backendCalls, rendered, reads, user_message>>

\* faulty variant: the configured initial prompt ignored
InitialPromptTextDefaultOnly == DEFAULT_PROMPT

\* the text of the first send_message call
InitialPromptText ==
    IF config.cfg_initial_prompt # "" THEN config.cfg_initial_prompt ELSE DEFAULT_PROMPT

\* printv(...); anim.start("Model is parsing ESBMC output... Please Wait")
InitialAnimStart ==
    /\ pc = "initial_start"
    /\ out' = printv(out, IF config.cfg_initial_prompt # ""
                          THEN "Using initial prompt from file...\n"
                          ELSE "Using default initial prompts...\n")
    /\ anim' = TRUE
    /\ animStarts' = animStarts + 1
    /\ Running("initial_send")
    /\ UNCHANGED <<env, config, source_code, esbmc_cmd, exit_code, esbmc_output,
                   esbmcRuns, system_messages, chat, response, sent, backendCalls,
                   rendered, reads, user_message>>

\* response = chat.send_message(text), the backend replying
SendReturns(text, next) ==
    \E r \in Responses :
        /\ chat' = SendMessageOk(chat, text, r)
        /\ response' = r
        /\ sent' = Append(sent, text)
        /\ backendCalls' = backendCalls + 1
        /\ Running(next)
        /\ UNCHANGED anim

\* faulty variant: the text transmitted a second time before the error is let out
SendRaisesAfterRetry(text) ==
    /\ chat' = SendMessageRaise(chat, text)
    /\ response' = response
    /\ sent' = Append(sent, text)
    /\ backendCalls' = backendCalls + 2
    /\ Uncaught("exception_backend")
    /\ UNCHANGED anim

\* response = chat.send_message(text), the transport call raising: no handler
\* in main(), so the exception leaves it from inside the call
SendRaises(text) ==
    /\ chat' = SendMessageRaise(chat, text)
    /\ response' = response
    /\ sent' = Append(sent, text)
    /\ backendCalls' = backendCalls + 1
    /\ Uncaught("exception_backend")
    /\ UNCHANGED anim

\* response = chat.send_message(config.cfg_initial_prompt / DEFAULT_PROMPT)
InitialSend ==
    /\ pc = "initial_send"
    /\ SendReturns(InitialPromptText, "initial_stop")
    /\ UNCHANGED <<env, config, out, animStarts, source_code, esbmc_cmd, exit_code,
                   esbmc_output, esbmcRuns, system_messages, rendered, reads,
                   user_message>>

InitialSendRaises ==
    /\ pc = "initial_send"
    /\ SendRaises(InitialPromptText)
    /\ UNCHANGED <<env, config, out, animStarts, source_code, esbmc_cmd, exit_code,
                   esbmc_output, esbmcRuns, system_messages, rendered, reads,
                   user_message>>

\* anim.stop()
InitialAnimStop ==
    /\ pc = "initial_stop"
    /\ anim' = FALSE
    /\ Running("initial_print")
    /\ UNCHANGED <<env, config, out, animStarts, source_code, esbmc_cmd, exit_code,
                   esbmc_output, esbmcRuns, system_messages, chat, response, sent,
                   backendCalls, rendered, reads, user_message>>

\* str() of the backend's reply object
PyStrResponse(r) ==
    "{role: " \o r.role \o ", content: " \o r.content \o ", total_tokens: "
    \o ToString(r.total_tokens) \o ", finish_reason: " \o r.finish_reason \o "}"

\* faulty variant: the statistics printed before the raw-mode test
print_assistant_response_stats_first(c, r) ==
    (IF config.verbose
     THEN << "stats: total tokens: " \o ToString(r.total_tokens)
             \o ", max tokens: " \o ToString(c.max_tokens)
             \o " finish reason: " \o r.finish_reason \o "\n" >>
     ELSE << >>)
    \o (IF config.raw_responses
        THEN << PyStrResponse(r) >>
        ELSE << r.role \o ": " \o r.content \o "\n" >>)

\* print_assistant_response(chat, response): what it prints
print_assistant_response(c, r) ==
    IF config.raw_responses
    THEN << PyStrResponse(r) >>
    ELSE (IF config.verbose
          THEN << "stats: total tokens: " \o ToString(r.total_tokens)
                  \o ", max tokens: " \o ToString(c.max_tokens)
                  \o " finish reason: " \o r.finish_reason \o "\n" >>
          ELSE << >>)
         \o << r.role \o ": " \o r.content \o "\n" >>

\* print_assistant_response(chat, response) after the initial prompt
InitialPrint ==
    /\ pc = "initial_print"
    /\ out' = out \o print_assistant_response(chat, response)
    /\ rendered' = Append(rendered, response)
    /\ Running("await")
    /\ UNCHANGED <<env, config, anim, animStarts, source_code, esbmc_cmd, exit_code,
                   esbmc_output, esbmcRuns, system_messages, chat, response, sent,
                   backendCalls, reads, user_message>>

-----------------------------------------------------------------------------
(* main(), the loop *)

\* the lines the operator may type
Lines == { "", "/help", "/exit", "Why does it fail?", " /exit", "/EXIT" }

\* faulty variant: the empty line not recognised
CommandNoEmptyCheck(line) ==
    IF line = "/exit" THEN "exit"
    ELSE IF line = "/help" THEN "help"
    ELSE "message"

\* faulty variant: /exit not recognised, taken for a message
CommandExitAsMessage(line) ==
    IF line = "/help" THEN "help"
    ELSE IF line = "" THEN "empty"
    ELSE "message"

\* faulty variant: the line compared after trimming and case folding
CommandNormalised(line) ==
    IF line \in {"/exit", " /exit", "/EXIT"} THEN "exit"
    ELSE IF line = "/help" THEN "help"
    ELSE IF line = "" THEN "empty"
    ELSE "message"

\* what the loop does with a line
Command(line) ==
    IF line = "/exit" THEN "exit"
    ELSE IF line = "/help" THEN "help"
    ELSE IF line = "" THEN "empty"
    ELSE "message"

\* user_message = input(">: ") and the if/elif chain on it
ReadInput ==
    /\ pc = "await"
    /\ reads < MaxReads
    /\ \E line \in Lines :
        /\ user_message' = line
        /\ reads' = reads + 1
        /\ CASE Command(line) = "exit" ->
                  /\ out' = Append(out, "exiting...")
                  /\ Exit(0, "exit_command")
             [] Command(line) = "help" ->
                  /\ out' = out \o HelpLines
                  /\ Running("await")
             [] Command(line) = "empty" ->
                  /\ out' = out
                  /\ Running("await")
             [] OTHER ->
                  /\ out' = Append(out, "")
                  /\ Running("dispatch_start")
    /\ UNCHANGED <<env, config, anim, animStarts, source_code, esbmc_cmd, exit_code,
                   esbmc_output, esbmcRuns, system_messages, chat, response, sent,
                   backendCalls, rendered>>

\* input(">: ") at the end of standard input: EOFError, no handler
ReadInputEOF ==
    /\ pc = "await"
    /\ reads < MaxReads
    /\ reads' = reads + 1
    /\ Uncaught("exception_input")
    /\ UNCHANGED <<env, config, out, anim, animStarts, source_code, esbmc_cmd,
                   exit_code, esbmc_output, esbmcRuns, system_messages, chat,
                   response, sent, backendCalls, rendered, user_message>>

\* anim.start("Generating response... Please Wait")
DispatchAnimStart ==
    /\ pc = "dispatch_start"
    /\ anim' = TRUE
    /\ animStarts' = animStarts + 1
    /\ Running("dispatch_send")
    /\ UNCHANGED <<env, config, out, source_code, esbmc_cmd, exit_code, esbmc_output,
                   esbmcRuns, system_messages, chat, response, sent, backendCalls,
                   rendered, reads, user_message>>

\* response = chat.send_message(user_message)
DispatchSend ==
    /\ pc = "dispatch_send"
    /\ SendReturns(user_message, "dispatch_stop")
    /\ UNCHANGED <<env, config, out, animStarts, source_code, esbmc_cmd, exit_code,
                   esbmc_output, esbmcRuns, system_messages, rendered, reads,
                   user_message>>

\* faulty variant: the exception caught in the loop, which goes on to the next line
DispatchSendRaisesCaught ==
    /\ pc = "dispatch_send"
    /\ chat' = SendMessageRaise(chat, user_message)
    /\ sent' = Append(sent, user_message)
    /\ backendCalls' = backendCalls + 1
    /\ anim' = FALSE
    /\ Running("await")
    /\ UNCHANGED <<env, config, out, animStarts, source_code, esbmc_cmd, exit_code,
                   esbmc_output, esbmcRuns, system_messages, response, rendered,
                   reads, user_message>>

DispatchSendRaises ==
    /\ pc = "dispatch_send"
    /\ SendRaises(user_message)
    /\ UNCHANGED <<env, config, out, animStarts, source_code, esbmc_cmd, exit_code,
                   esbmc_output, esbmcRuns, system_messages, rendered, reads,
                   user_message>>

\* anim.stop()
DispatchAnimStop ==
    /\ pc = "dispatch_stop"
    /\ anim' = FALSE
    /\ Running("dispatch_print")
    /\ UNCHANGED <<env, config, out, animStarts, source_code, esbmc_cmd, exit_code,
                   esbmc_output, esbmcRuns, system_messages, chat, response, sent,
                   backendCalls, rendered, reads, user_message>>

\* print_assistant_response(chat, response) in the loop
DispatchPrint ==
    /\ pc = "dispatch_print"
    /\ out' = out \o print_assistant_response(chat, response)
    /\ rendered' = Append(rendered, response)
    /\ Running("await")
    /\ UNCHANGED <<env, config, anim, animStarts, source_code, esbmc_cmd, exit_code,
                   esbmc_output, esbmcRuns, system_messages, chat, response, sent,
                   backendCalls, reads, user_message>>

-----------------------------------------------------------------------------

Next ==
    \/ InitCheckHealth
    \/ LoadConfig
    \/ CheckHealth
    \/ InitAiData
    \/ GetSrc
    \/ EsbmcAnimStart
    \/ EsbmcCall
    \/ EsbmcAnimStop
    \/ Classify
    \/ BuildSystemMessages
    \/ ChatInit
    \/ InitialAnimStart
    \/ InitialSend
    \/ InitialSendRaises
    \/ InitialAnimStop
    \/ InitialPrint
    \/ ReadInput
    \/ ReadInputEOF
    \/ DispatchAnimStart
    \/ DispatchSend
    \/ DispatchSendRaises
    \/ DispatchAnimStop
    \/ DispatchPrint

Spec == Init /\ [][Next]_vars

-----------------------------------------------------------------------------
(* Properties *)

\* the positions of main() from bootstrap on
ChatPcs == { "build_system_messages", "chat_init", "initial_start", "initial_send",
             "initial_stop", "initial_print", "await", "dispatch_start",
             "dispatch_send", "dispatch_stop", "dispatch_print" }

\* has the verifier process run to its end
VerifierDone == esbmcRuns = 1 /\ pc \notin {"esbmc_call"}

Last(q) == q[Len(q)]

bootstrapCount == Len(system_messages)

\* C1: between send_message calls the history holds the seed transcript,
\* unchanged, followed by one user entry and one assistant entry per
\* send_message call made so far, in that order: its length is
\* bootstrapCount + 2N.
C1_HistoryOrdering ==
    (chat.created /\ endedBy # "exception_backend") =>
        LET m == chat.messages
            N == Len(sent)
        IN /\ Len(m) = bootstrapCount + 2 * N
           /\ SubSeq(m, 1, bootstrapCount) = system_messages
           /\ system_messages = build_system_messages(source_code, esbmc_output)
           /\ \A i \in 1..N :
                /\ m[bootstrapCount + 2 * i - 1] = Msg("user", sent[i])
                /\ m[bootstrapCount + 2 * i].role = "assistant"

C1_Witness ==
    /\ pc = "await"
    /\ reads = 3
    /\ Len(sent) = 3
    /\ user_message = "/help"

\* C2: when the verifier ends with code 0 the program prints "Success!" and
\* then the output text the runner returned, ends with status 0, and builds
\* no seed transcript, creates no chat and calls the backend never.
C2_VerifierSuccess ==
    (VerifierDone /\ exit_code = 0) =>
        /\ pc \in {"esbmc_stop", "classify", "terminated"}
        /\ system_messages = << >>
        /\ ~chat.created
        /\ backendCalls = 0
        /\ sent = << >>
        /\ pc = "terminated" =>
             /\ status = 0
             /\ Len(out) >= 2
             /\ SubSeq(out, Len(out) - 1, Len(out)) = << "Success!", esbmc_output >>

C2_Witness ==
    /\ pc = "terminated"
    /\ VerifierDone
    /\ exit_code = 0
    /\ status = 0

\* C3: when the verifier ends with a code other than 0 and 1 the program
\* prints that code and ends with status 1 without a backend call; bootstrap
\* and the chat are reached only after exit code 1; the three outcomes end in
\* three different ways.
C3_ExitCodeClassification ==
    /\ (VerifierDone /\ exit_code \notin {0, 1}) =>
          /\ pc \in {"esbmc_stop", "classify", "terminated"}
          /\ backendCalls = 0
          /\ ~chat.created
          /\ system_messages = << >>
          /\ pc = "terminated" =>
               /\ status = 1
               /\ Last(out) = "ESBMC exit code: " \o ToString(exit_code)
    /\ (pc \in ChatPcs \/ chat.created \/ backendCalls > 0 \/ system_messages # << >>) =>
          (esbmcRuns = 1 /\ exit_code = 1)
    /\ (VerifierDone /\ exit_code = 1 /\ pc = "terminated") =>
          (chat.created /\ backendCalls >= 1)

C3_Witness ==
    /\ pc = "terminated"
    /\ VerifierDone
    /\ exit_code = -6
    /\ status = 1

\* C4: when the .env file or the verifier binary is missing the program
\* prints the diagnostic of the first missing one and ends with status 3;
\* the verifier is never launched, the indicator never started, no history
\* built and the backend never called.
C4_PreconditionFailure ==
    (~env.envExists \/ ~env.esbmcExists) =>
        /\ pc \in {"init_check_health", "load_config", "check_health", "terminated"}
        /\ esbmcRuns = 0
        /\ esbmc_cmd = << >>
        /\ animStarts = 0
        /\ ~anim
        /\ system_messages = << >>
        /\ ~chat.created
        /\ backendCalls = 0
        /\ pc = "terminated" =>
             /\ status = 3
             /\ Last(out) = (IF ~env.envExists
                             THEN "Error: .env file is not found in project directory"
                             ELSE "Error: ESBMC could not be found in " \o ESBMC_PATH)

C4_Witness ==
    /\ pc = "terminated"
    /\ env.envExists
    /\ ~env.esbmcExists
    /\ status = 3

\* C5: a step of the loop that reads the empty line or /help leaves the
\* history, the backend call count, the indicator and every other part of the
\* session as they were (only /help prints, the command list) and returns to
\* awaiting input.
C5_NoOpCommands ==
    [][ (/\ pc = "await"
         /\ reads' = reads + 1
         /\ endedBy' # "exception_input"
         /\ user_message' \in {"", "/help"})
        => /\ pc' = "await"
           /\ chat' = chat
           /\ sent' = sent
           /\ backendCalls' = backendCalls
           /\ anim' = anim
           /\ animStarts' = animStarts
           /\ out' = (IF user_message' = "/help" THEN out \o HelpLines ELSE out)
           /\ UNCHANGED <<env, config, status, endedBy, source_code, esbmc_cmd,
                          exit_code, esbmc_output, esbmcRuns, system_messages,
                          response, rendered>> ]_vars

C5_Witness ==
    /\ pc = "await"
    /\ reads = 3
    /\ user_message = ""
    /\ Len(sent) = 2
    /\ Len(out) > Len(HelpLines)
    /\ SubSeq(out, Len(out) - Len(HelpLines) + 1, Len(out)) = HelpLines

\* C6 as stated: the process ends only by /exit or by a startup failure
\* (missing .env file, missing verifier binary, verifier crash).
C6_OnlyExitOrStartupFailure ==
    pc = "terminated" =>
        endedBy \in {"exit_command", "missing_env", "missing_esbmc", "verifier_crash"}

\* C6 amended: the process ends only by /exit, by a startup failure (missing
\* .env file, missing verifier binary, verifier crash), by the verifier
\* reporting success, or by an exception nothing catches (source file not
\* readable, verifier not launchable, backend call raising, end of standard
\* input); everywhere else main() has a next step.
C6_TerminationCauses ==
    /\ pc = "terminated" =>
        \/ /\ reads >= 1 /\ user_message = "/exit"
           /\ status = 0 /\ Last(out) = "exiting..."
           /\ endedBy = "exit_command"
        \/ ~env.envExists /\ status = 3 /\ esbmcRuns = 0
        \/ env.envExists /\ ~env.esbmcExists /\ status = 3 /\ esbmcRuns = 0
        \/ VerifierDone /\ exit_code \notin {0, 1} /\ status = 1 /\ ~chat.created
        \/ VerifierDone /\ exit_code = 0 /\ status = 0 /\ ~chat.created
        \/ ~env.srcReadable /\ status = 1 /\ animStarts = 0
           /\ endedBy = "exception_get_src"
        \/ env.popenRaises /\ status = 1 /\ esbmcRuns = 0
           /\ endedBy = "exception_popen"
        \/ /\ chat.created /\ status = 1
           /\ Len(chat.messages) = bootstrapCount + 2 * Len(sent) - 1
           /\ endedBy = "exception_backend"
        \/ reads >= 1 /\ status = 1 /\ endedBy = "exception_input"
    /\ (pc # "terminated" /\ reads < MaxReads) => ENABLED Next
    /\ pc = "terminated" <=> status # -1

C6_Witness ==
    /\ pc = "terminated"
    /\ endedBy = "exception_backend"
    /\ reads = 2

\* C7 as stated: the indicator is not running while the program awaits
\* operator input, nor once the process has ended.
C7_IndicatorStopped ==
    pc \in {"await", "terminated"} => ~anim

\* C8 as stated: the verifier's argument vector is the verifier path, the
\* default parameters, the operator's extra parameters, the target file.
C8_ArgumentVector ==
    esbmc_cmd # << >> =>
        esbmc_cmd = << ESBMC_PATH >> \o ESBMC_PARAMS \o env.remaining \o << env.filename >>

\* C9: the seed transcript is the configured system messages, or else the
\* built-in persona, followed by exactly four entries: the source code
\* injection, "OK", the verifier output injection, "OK".
C9_SeedTranscript ==
    (pc = "chat_init" \/ chat.created) =>
        LET sm == system_messages
            n  == Len(sm)
        IN /\ n >= 4
           /\ SubSeq(sm, 1, n - 4) =
                (IF env.cfg_sys_msg = CfgStr("")
                 THEN SYSTEM_MSG_DEFAULT
                 ELSE env.cfg_sys_msg.list)
           /\ sm[n - 3] = Msg("system", SRC_INJECT \o source_code)
           /\ sm[n - 2] = Msg("assistant", "OK")
           /\ sm[n - 1] = Msg("system", OUT_INJECT \o esbmc_output)
           /\ sm[n]     = Msg("assistant", "OK")
           /\ source_code # "" /\ esbmc_output # ""

C9_Witness ==
    /\ chat.created
    /\ env.cfg_sys_msg.kind = "list"
    /\ env.cfg_sys_msg.list # << >>
    /\ Len(system_messages) = 5

\* C10: before the first line is read exactly one send_message call has been
\* made, after bootstrap, with the configured initial prompt if there is one
\* and the default prompt otherwise, and exactly one response has been
\* rendered for it.
C10_InitialPrompt ==
    LET text == IF env.cfg_initial_prompt # ""
                THEN env.cfg_initial_prompt
                ELSE DEFAULT_PROMPT
    IN /\ (pc = "await" /\ reads = 0) =>
            /\ sent = << text >>
            /\ backendCalls = 1
            /\ rendered = << response >>
            /\ chat.messages = system_messages
                                \o << Msg("user", text), Msg(response.role, response.content) >>
            /\ Len(out) >= 1
            /\ Last(out) = Last(print_assistant_response(chat, response))
       /\ reads > 0 => (Len(sent) >= 1 /\ sent[1] = text /\ Len(rendered) >= 1)
       /\ sent # << >> => (chat.created /\ sent[1] = text)

C10_Witness ==
    /\ pc = "await"
    /\ reads = 0
    /\ env.cfg_initial_prompt = "Explain the bug."
    /\ Len(rendered) = 1

\* C11: a step of the loop that reads /exit prints the farewell and ends the
\* process with status 0, leaving the history and the backend call count as
\* they were; when /exit is the first line read, the history at the end holds
\* bootstrapCount + 2 entries.
C11_ExitCommand ==
    /\ [][ (/\ pc = "await"
            /\ reads' = reads + 1
            /\ endedBy' # "exception_input"
            /\ user_message' = "/exit")
           => /\ pc' = "terminated"
              /\ status' = 0
              /\ out' = Append(out, "exiting...")
              /\ chat' = chat
              /\ sent' = sent
              /\ backendCalls' = backendCalls
              /\ rendered' = rendered
              /\ anim' = anim
              /\ animStarts' = animStarts ]_vars
    /\ [](endedBy = "exit_command" =>
            /\ user_message = "/exit"
            /\ status = 0
            /\ Len(chat.messages) = bootstrapCount + 2 * backendCalls
            /\ reads = 1 => Len(chat.messages) = bootstrapCount + 2)

C11_Witness ==
    /\ pc = "terminated"
    /\ user_message = "/exit"
    /\ reads = 1
    /\ status = 0
    /\ Last(out) = "exiting..."
    /\ Len(chat.messages) = bootstrapCount + 2

\* the blocking calls: the verifier is in flight while main() is inside
\* esbmc(), a backend call while it is inside send_message
VerifierInFlight == pc = "esbmc_call"
BackendInFlight == pc \in {"initial_send", "dispatch_send"}

\* C12: the verifier is launched at most once, and only with no chat, no
\* backend call and no line read before it; it has run to its end, exactly
\* once, in every state from bootstrap on; a backend call starts only when
\* every earlier one has returned and been rendered; a line is read only when
\* neither call is in flight.  (A session that ends in a startup failure
\* before esbmc() launches the verifier has launched it zero times.)
C12_Sequential ==
    /\ [](/\ esbmcRuns <= 1
          /\ (pc \in ChatPcs \/ chat.created \/ backendCalls > 0 \/ sent # << >>)
                => (esbmcRuns = 1 /\ ~VerifierInFlight)
          /\ VerifierInFlight => (esbmcRuns = 0 /\ backendCalls = 0 /\ reads = 0)
          /\ BackendInFlight => (Len(rendered) = backendCalls /\ anim)
          /\ backendCalls <= Len(rendered) + 1
          /\ pc = "terminated" =>
                esbmcRuns = (IF endedBy \in {"missing_env", "missing_esbmc",
                                             "exception_get_src", "exception_popen"}
                             THEN 0 ELSE 1))
    /\ [][ esbmcRuns' # esbmcRuns =>
              /\ VerifierInFlight
              /\ esbmcRuns = 0
              /\ ~chat.created /\ system_messages = << >> /\ backendCalls = 0 ]_vars
    /\ [][ backendCalls' # backendCalls =>
              /\ BackendInFlight
              /\ backendCalls' = backendCalls + 1
              /\ reads' = reads /\ esbmcRuns' = esbmcRuns ]_vars
    /\ [][ reads' # reads =>
              /\ pc = "await"
              /\ ~anim
              /\ Len(rendered) = backendCalls
              /\ backendCalls' = backendCalls /\ esbmcRuns' = esbmcRuns ]_vars

C12_Witness ==
    /\ BackendInFlight
    /\ pc = "dispatch_send"
    /\ esbmcRuns = 1
    /\ backendCalls = 2
    /\ reads = 2

\* C13: when a backend call raises, the process ends there: the text was
\* transmitted once (every text passed to send_message is transmitted exactly
\* once), nothing is rendered or printed for it, no further line is read, the
\* history keeps the unanswered user entry once, and nothing happens after.
C13_BackendErrorPropagates ==
    /\ [](/\ backendCalls = Len(sent)
          /\ endedBy = "exception_backend" =>
               /\ pc = "terminated"
               /\ status = 1
               /\ Len(rendered) = Len(sent) - 1
               /\ Len(chat.messages) = bootstrapCount + 2 * Len(sent) - 1
               /\ Last(chat.messages) = Msg("user", Last(sent))
               /\ Len(sent) >= 2 =>
                    chat.messages[Len(chat.messages) - 1].role = "assistant")
    /\ [][ (BackendInFlight /\ pc' = "terminated") =>
              /\ endedBy' = "exception_backend"
              /\ backendCalls' = backendCalls + 1
              /\ rendered' = rendered
              /\ out' = out
              /\ reads' = reads
              /\ response' = response ]_vars
    /\ [][ endedBy = "exception_backend" => UNCHANGED vars ]_vars

C13_Witness ==
    /\ endedBy = "exception_backend"
    /\ Len(sent) = 2
    /\ reads = 3
    /\ Len(rendered) = 1
    /\ sent[2] = "/EXIT"

\* the diagnostic each failure prints
Diagnostic(kind) ==
    CASE kind = "missing_env"    -> "Error: .env file is not found in project directory"
      [] kind = "missing_esbmc"  -> "Error: ESBMC could not be found in " \o config.esbmc_path
      [] kind = "verifier_crash" -> "ESBMC exit code: " \o ToString(exit_code)

\* C14 as stated: each failure kind prints its diagnostic and ends the process
\* with a non-zero status that no other failure kind ends with.
C14_DistinctStatusPerKind ==
    (pc = "terminated" /\ endedBy \in FailureKinds) =>
        /\ status # 0
        /\ Last(out) = Diagnostic(endedBy)
        /\ \A k \in FailureKinds \ {endedBy} : FailureStatus(k) # status

\* C14 amended: each failure kind prints one diagnostic of its own, as the last
\* thing printed, and ends the process with a non-zero status: 3 for a missing
\* .env file and for a missing verifier binary alike, 1 for a verifier crash.
C14_FailureStatus ==
    (pc = "terminated" /\ endedBy \in FailureKinds) =>
        /\ status # 0
        /\ status = (IF endedBy = "verifier_crash" THEN 1 ELSE 3)
        /\ Last(out) = Diagnostic(endedBy)
        /\ \A k \in FailureKinds \ {endedBy} : Diagnostic(k) # Last(out)
        /\ ~env.verbose => out = << "ESBMC-AI", "", Diagnostic(endedBy) >>
        /\ endedBy = "missing_env" <=> ~env.envExists
        /\ endedBy = "missing_esbmc" <=> (env.envExists /\ ~env.esbmcExists)
        /\ endedBy = "verifier_crash" => (VerifierDone /\ exit_code \notin {0, 1})

C14_Witness ==
    /\ pc = "terminated"
    /\ endedBy = "verifier_crash"
    /\ exit_code = 2
    /\ status = 1
    /\ ~env.verbose
    /\ Len(out) = 3

\* C15 as stated: the output text the runner returns is the text the verifier
\* wrote with every backslash followed by n turned into one line break, and
\* nothing else added, dropped or changed.
C15_TextNormalization ==
    VerifierDone =>
        esbmc_output = Join(ReplaceEscapedNewline(env.stdout_bytes))

\* C16: a line that is not empty and is not exactly /exit or /help (so
\* " /exit" and "/EXIT" too) goes to dispatch; dispatch passes it unchanged to
\* send_message once and renders the one response to it, and only then is the
\* next line read; texts and responses keep the order of entry.
C16_FreeTextDispatch ==
    /\ [][ (/\ pc = "await"
            /\ reads' = reads + 1
            /\ endedBy' # "exception_input"
            /\ user_message' \notin {"", "/exit", "/help"})
           => /\ pc' = "dispatch_start"
              /\ sent' = sent /\ chat' = chat /\ rendered' = rendered ]_vars
    /\ [][ (pc = "dispatch_send" /\ pc' # pc) =>
              /\ sent' = Append(sent, user_message)
              /\ user_message' = user_message
              /\ chat'.messages[Len(chat.messages) + 1] = Msg("user", user_message) ]_vars
    /\ [][ (pc = "dispatch_print" /\ pc' # pc) =>
              /\ pc' = "await"
              /\ rendered' = Append(rendered, response)
              /\ sent' = sent /\ reads' = reads ]_vars
    /\ [][ reads' # reads => (pc = "await" /\ Len(rendered) = Len(sent)) ]_vars
    /\ [](/\ pc \in {"dispatch_start", "dispatch_send"} =>
               /\ user_message \notin {"", "/exit", "/help"}
               /\ Len(rendered) = Len(sent)
          /\ pc \in {"dispatch_stop", "dispatch_print"} =>
               /\ Last(sent) = user_message
               /\ Len(rendered) = Len(sent) - 1
               /\ Last(chat.messages) = Msg(response.role, response.content)
          /\ pc = "await" =>
               /\ Len(rendered) = Len(sent)
               /\ Len(sent) <= 1 + reads
               /\ \A i \in 1..Len(sent) :
                    /\ chat.messages[bootstrapCount + 2 * i - 1] = Msg("user", sent[i])
                    /\ chat.messages[bootstrapCount + 2 * i]
                         = Msg(rendered[i].role, rendered[i].content))

C16_Witness ==
    /\ pc = "await"
    /\ reads = 2
    /\ Len(sent) = 3
    /\ sent[2] = " /exit"
    /\ sent[3] = "/EXIT"
    /\ rendered[2].finish_reason = "length"
    /\ rendered[3].finish_reason = "stop"

\* C17: rendering a response prints, in raw mode, the raw response alone
\* (also when verbose is set); otherwise one line "role: content", with one
\* statistics line (total tokens, max tokens, finish reason) before it exactly
\* when verbose is set.
C17_ResponseRendering ==
    [][ (pc \in {"initial_print", "dispatch_print"} /\ pc' # pc) =>
          LET printed  == SubSeq(out', Len(out) + 1, Len(out'))
              roleLine == response.role \o ": " \o response.content \o "\n"
              stats    == "stats: total tokens: " \o ToString(response.total_tokens)
                          \o ", max tokens: " \o ToString(chat.max_tokens)
                          \o " finish reason: " \o response.finish_reason \o "\n"
          IN /\ Len(out') >= Len(out)
             /\ SubSeq(out', 1, Len(out)) = out
             /\ env.raw_output => printed = << PyStrResponse(response) >>
             /\ (~env.raw_output /\ env.verbose) => printed = << stats, roleLine >>
             /\ (~env.raw_output /\ ~env.verbose) => printed = << roleLine >> ]_vars

C17_Witness ==
    /\ pc = "await"
    /\ env.raw_output
    /\ env.verbose
    /\ Len(rendered) = 2
    /\ Last(out) = PyStrResponse(response)
    /\ out[Len(out) - 1] = ""

\* the startup positions of main(), in the order of its statements
StartupOrder == << "init_check_health", "load_config", "check_health",
                   "init_ai_data", "get_src", "esbmc_start", "esbmc_call",
                   "esbmc_stop" >>

\* C18: startup runs credential-file check, configuration loading,
\* verifier-binary check, AI-data initialisation, source-file read, verifier
\* invocation, in this order, each step either going on to the next or ending
\* the process.  With the .env file missing the configuration is never loaded
\* and the verifier-binary diagnostic never printed; the verifier is launched
\* only after the source file has been read, never when it cannot be read.
C18_StartupOrder ==
    /\ [][ \A i \in 1..(Len(StartupOrder) - 1) :
              (pc = StartupOrder[i] /\ pc' # pc) =>
                  pc' \in {StartupOrder[i + 1], "terminated"} ]_vars
    /\ [][ config' # config => (pc = "load_config" /\ env.envExists) ]_vars
    /\ [][ source_code' # source_code =>
              (pc = "get_src" /\ config = LoadedConfig(env) /\ env.esbmcExists) ]_vars
    /\ [][ (esbmc_cmd' # esbmc_cmd \/ esbmcRuns' # esbmcRuns) =>
              (pc = "esbmc_call" /\ source_code # "" /\ animStarts = 1) ]_vars
    /\ [](/\ ~env.envExists =>
               /\ config = ConfigDefaults
               /\ pc \in {"init_check_health", "terminated"}
               /\ \A i \in 1..Len(out) :
                    out[i] # "Error: ESBMC could not be found in " \o ESBMC_PATH
               /\ pc = "terminated" =>
                    Last(out) = "Error: .env file is not found in project directory"
          /\ ~env.srcReadable =>
               /\ esbmcRuns = 0 /\ esbmc_cmd = << >> /\ animStarts = 0
               /\ source_code = ""
          /\ pc \in {"check_health", "init_ai_data", "get_src"} =>
               config = LoadedConfig(env))

C18_Witness ==
    /\ pc = "terminated"
    /\ ~env.envExists
    /\ ~env.esbmcExists
    /\ ~env.srcReadable
    /\ env.verbose
    /\ Len(out) = 4

====
